---- MODULE Spec2Model ----
(***************************************************************************)
(* The Ising-model kernel of "01-Principles/03 Regex.ipynb": the numba     *)
(* functions calc_positional_e, delta_e, total_mag_e and the sampler       *)
(* metropolis_hastings(N, n_steps, beta).                                  *)
(*                                                                         *)
(* Numbers: every energy the kernel produces is a small integer held in a  *)
(* float64, so the integers model them exactly.  beta is betaK * ln 2 and  *)
(* a uniform draw is a fraction <<num, den>>, which makes the comparison   *)
(* exp(-beta*dE) > u exact integer arithmetic.                             *)
(*                                                                         *)
(* Array reads: numpy and numba wrap a negative index once.  An index that *)
(* is still outside the axis raises IndexError in a bounds-checked build   *)
(* (plain Python, NUMBA_DISABLE_JIT, NUMBA_BOUNDSCHECK) and reads the      *)
(* word at the computed offset in the default numba build.                 *)
(***************************************************************************)
EXTENDS Integers, Sequences, FiniteSets, TLC

VARIABLES N, n_steps, betaK, build, mem,
          spins, E_series, s, randx, randy, dE, u,
          pc, err, raisedAt, spins0, prev, ret, twin

vars == <<N, n_steps, betaK, build, mem, spins, E_series, s, randx, randy,
          dE, u, pc, err, raisedAt, spins0, prev, ret, twin>>

(* ---- bounds ---- *)
\* metropolis_hastings is called with N in -1 .. MaxN, n_steps in -1 .. MaxSteps
MaxN == 2
MaxSteps == 3
\* the kernel functions are called on lattices of side 1 .. MaxSide
MaxSide == 3
\* the random lattice is enumerated over its first MaxFree (MaxFreeFn) cells in
\* row-major order, the cells after them being +1: every lattice up to the
\* sides above
MaxFree == 4
MaxFreeFn == 9
\* average_magnetization is called on lattices of side 1 .. MaxMagSide
MaxMagSide == 7

(* ---- the environment ---- *)
Builds == {"checked", "unchecked"}
JunkVals == {-3, 0, 1}
\* betaK = BetaInf stands for beta = +inf (np.inf), the zero-temperature limit
BetaInf == 1000000
BetaKs == {-1, 1, 200, BetaInf}
UDraws == {<<0, 1>>, <<3, 256>>, <<255, 256>>}
NoDraw == <<0, 0>>

J == 1

Cells(n) == (0 .. n - 1) \X (0 .. n - 1)
Lattices(n, free) ==
  {L \in [Cells(n) -> {-1, 1}] :
     \A c \in Cells(n) : c[1] * n + c[2] >= free => L[c] = 1}

RECURSIVE SumOver(_, _)
SumOver(f, S) ==
  IF S = {} THEN 0
  ELSE LET c == CHOOSE c \in S : TRUE IN f[c] + SumOver(f, S \ {c})

RECURSIVE Pow2(_)
Pow2(n) == IF n <= 0 THEN 1 ELSE 2 * Pow2(n - 1)

(* ---- array indexing ---- *)
Wrap(n, k) == IF k < 0 THEN k + n ELSE k

InBounds(n, i, j) ==
  /\ Wrap(n, i) \in 0 .. n - 1
  /\ Wrap(n, j) \in 0 .. n - 1

\* the value of spins[i, j] when the read does not raise
At(sp, n, b, m, i, j) ==
  LET wi == Wrap(n, i)
      wj == Wrap(n, j)
      off == wi * n + wj
  IN IF InBounds(n, i, j) THEN sp[<<wi, wj>>]
     ELSE IF off \in 0 .. n * n - 1 THEN sp[<<off \div n, off % n>>]
     ELSE m

\* the four index pairs read for site (i, j) by calc_positional_e: l, r, u, d
PositionalReads(n, i, j) ==
  LET rows == IF i = 0 THEN << <<n - 1, j>>, <<i + 1, j>> >>
              ELSE IF i = n - 1 THEN << <<i - 1, j>>, <<0, j>> >>
              ELSE << <<i, j - 1>>, <<i, j + 1>> >>
      cols == IF j = 0 THEN << <<i, n - 1>>, <<i, j + 1>> >>
              ELSE IF j = n - 1 THEN << <<i, j - 1>>, <<i, 0>> >>
              ELSE << <<i, j - 1>>, <<i, j + 1>> >>
  IN rows \o cols

\* the four index pairs read for site (i, j) by delta_e: l, r, u, d
DeltaReads(n, i, j) ==
  LET rows == IF i = 0 THEN << <<n - 1, j>>, <<i + 1, j>> >>
              ELSE IF i = n - 1 THEN << <<i - 1, j>>, <<0, j>> >>
              ELSE << <<i - 1, j>>, <<i + 1, j>> >>
      cols == IF j = 0 THEN << <<i, n - 1>>, <<i, j + 1>> >>
              ELSE IF j = n - 1 THEN << <<i, j - 1>>, <<i, 0>> >>
              ELSE << <<i, j - 1>>, <<i, j + 1>> >>
  IN rows \o cols

ReadsRaise(n, b, rd) ==
  /\ b = "checked"
  /\ \E k \in 1 .. Len(rd) : ~InBounds(n, rd[k][1], rd[k][2])

ReadsSumBug(sp, n, b, m, rd) ==
  At(sp, n, b, m, rd[1][1], rd[1][2]) + At(sp, n, b, m, rd[2][1], rd[2][2])
  + At(sp, n, b, m, rd[3][1], rd[3][2])

ReadsSum(sp, n, b, m, rd) ==
  At(sp, n, b, m, rd[1][1], rd[1][2]) + At(sp, n, b, m, rd[2][1], rd[2][2])
  + At(sp, n, b, m, rd[3][1], rd[3][2]) + At(sp, n, b, m, rd[4][1], rd[4][2])

(* ---- the kernel functions ---- *)
calc_positional_e_raises(sp, n, b) ==
  \E c \in Cells(n) : ReadsRaise(n, b, PositionalReads(n, c[1], c[2]))

calc_positional_e(sp, n, b, m) ==
  [c \in Cells(n) |-> ReadsSum(sp, n, b, m, PositionalReads(n, c[1], c[2]))]

delta_e_raises(sp, n, b, i, j) == ReadsRaise(n, b, DeltaReads(n, i, j))

delta_eNoSpinBug(sp, n, b, m, i, j, JJ) ==
  2 * JJ * ReadsSum(sp, n, b, m, DeltaReads(n, i, j))

delta_eBug(sp, n, b, m, i, j, JJ) ==
  4 * JJ * sp[<<i, j>>] * ReadsSum(sp, n, b, m, DeltaReads(n, i, j))

delta_e(sp, n, b, m, i, j, JJ) ==
  2 * JJ * sp[<<i, j>>] * ReadsSum(sp, n, b, m, DeltaReads(n, i, j))

total_mag_e(sp, n, b, m, JJ) ==
  -JJ * SumOver(calc_positional_e(sp, n, b, m), Cells(n))

(* ---- the pieces of metropolis_hastings ---- *)
\* np.exp(-beta*dE) in float64, beta = k * ln 2: the value is 2^e, which is
\* 0.0 below the smallest subnormal 2^-1074 and inf from 2^1024 on.  With
\* beta = inf the product -beta*dE is -inf, nan or inf as dE is positive, zero
\* or negative, and its exponential is 0.0, nan or inf.
np_exp(d, k) ==
  LET e == -(k * d)
  IN IF k = BetaInf
     THEN [e |-> 0, zero |-> d > 0, inf |-> d < 0, nan |-> d = 0]
     ELSE [e |-> e, zero |-> e < -1074, inf |-> e >= 1024, nan |-> FALSE]

\* np.exp(-beta*dE) > u for a draw u = uu[1] / uu[2] in [0, 1), uu[2] <= 2^8;
\* a power of two beyond 2^24 or 2^-24 is compared without being computed,
\* and nan is greater than nothing
Boltzmann(d, k, uu) ==
  LET t == np_exp(d, k)
  IN IF t.nan THEN FALSE
     ELSE IF t.zero THEN 0 > uu[1]
     ELSE IF t.e >= 0
     THEN t.inf \/ t.e > 24 \/ Pow2(t.e) * uu[2] > uu[1]
     ELSE IF -t.e > 24 THEN uu[1] = 0
     ELSE uu[2] > uu[1] * Pow2(-t.e)

\* line 1214: "or" evaluates np.random.rand() only when dE < 0. is false
DrawsForBug(d) == UDraws

DrawsFor(d) == IF d < 0 THEN {NoDraw} ELSE UDraws

AcceptsBug(d, k, uu) == d < 0 /\ Boltzmann(d, k, uu)

Accepts(d, k, uu) == d < 0 \/ Boltzmann(d, k, uu)

FlipRowBug(sp, x, y) ==
  [c \in DOMAIN sp |-> IF c[1] = x THEN -sp[c] ELSE sp[c]]

FlipBug(sp, x, y) == [sp EXCEPT ![<<x, y>>] = @ - 1]

Flip(sp, x, y) == [sp EXCEPT ![<<x, y>>] = @ * (-1)]

E_initBug(ns, e0) == [k \in 0 .. ns - 1 |-> 1]

E_init(ns, e0) == [k \in 0 .. ns - 1 |-> IF k = 0 THEN e0 ELSE 1]

E_updateAlwaysBug(E, k, d, acc) == [E EXCEPT ![k] = E[k - 1] + d]

E_updateBug(E, k, d, acc) ==
  [E EXCEPT ![k] = IF acc THEN E[k - 1] - d ELSE E[k - 1]]

E_update(E, k, d, acc) ==
  [E EXCEPT ![k] = IF acc THEN E[k - 1] + d ELSE E[k - 1]]

NoRet ==
  [fn |-> "none", i |-> 0, j |-> 0, a |-> 0, b |-> 0, raised |-> FALSE,
   val |-> 0, E |-> <<>>, mag |-> <<>>]

\* no second execution
NoTwin == [mem |-> 0, spins |-> <<>>, E_series |-> <<>>, pc |-> "none"]

(* ---- metropolis_hastings(N, n_steps, beta) ---- *)
InitRun ==
  /\ \E k \in 0 .. MaxN + 1 : N = MaxN - k
  /\ n_steps \in -1 .. MaxSteps
  /\ betaK \in BetaKs
  /\ build \in Builds
  /\ mem \in (IF N = 1 THEN JunkVals ELSE {0})
  /\ spins = <<>>
  /\ E_series = <<>>
  /\ s = 0
  /\ randx = 0
  /\ randy = 0
  /\ dE = 0
  /\ u = NoDraw
  /\ pc = "call"
  /\ err = "none"
  /\ raisedAt = "none"
  /\ spins0 = <<>>
  /\ prev = <<>>
  /\ ret = NoRet

Init == InitRun /\ twin = NoTwin

Raise(kind, at) ==
  /\ pc' = "raised"
  /\ err' = kind
  /\ raisedAt' = at

\* lines 1203-1206: allocate the lattice and the series, write E_series[0]
SetupRun ==
  /\ pc = "call"
  /\ UNCHANGED <<N, n_steps, betaK, build, mem, s, randx, randy, dE, u, ret>>
  /\ IF N < 0
     THEN /\ Raise("ValueError", "np.random.choice")
          /\ UNCHANGED <<spins, E_series, spins0, prev>>
     ELSE \E L \in Lattices(N, MaxFree) :
          /\ spins' = L
          /\ spins0' = L
          /\ prev' = L
          /\ IF n_steps < 0
             THEN /\ Raise("ValueError", "np.ones")
                  /\ UNCHANGED E_series
             ELSE IF calc_positional_e_raises(L, N, build)
             THEN /\ Raise("IndexError", "calc_positional_e")
                  /\ E_series' = [k \in 0 .. n_steps - 1 |-> 1]
             ELSE IF n_steps = 0
             THEN /\ Raise("IndexError", "E_series[0]")
                  /\ E_series' = [k \in 0 .. n_steps - 1 |-> 1]
             ELSE /\ E_series' = E_init(n_steps, total_mag_e(L, N, build, mem, J))
                  /\ pc' = "loop"
                  /\ UNCHANGED <<err, raisedAt>>

Setup == SetupRun /\ UNCHANGED twin

\* lines 1208-1218: one iteration of the loop
StepRun ==
  /\ pc = "loop"
  /\ s + 1 < n_steps
  /\ s' = s + 1
  /\ UNCHANGED <<N, n_steps, betaK, build, mem, spins0, ret>>
  /\ IF N = 0
     THEN /\ Raise("ValueError", "np.random.randint")
          /\ UNCHANGED <<spins, E_series, randx, randy, dE, u, prev>>
     ELSE \E x \in 0 .. N - 1, y \in 0 .. N - 1 :
          /\ randx' = x
          /\ randy' = y
          /\ IF delta_e_raises(spins, N, build, x, y)
             THEN /\ Raise("IndexError", "delta_e")
                  /\ UNCHANGED <<spins, E_series, dE, u, prev>>
             ELSE LET d == delta_e(spins, N, build, mem, x, y, J)
                  IN /\ dE' = d
                     /\ prev' = spins
                     /\ UNCHANGED <<pc, err, raisedAt>>
                     /\ \E uu \in DrawsFor(d) :
                        /\ u' = uu
                        /\ spins' = IF Accepts(d, betaK, uu)
                                    THEN Flip(spins, x, y) ELSE spins
                        /\ E_series' = E_update(E_series, s + 1, d,
                                                Accepts(d, betaK, uu))

Step == StepRun /\ UNCHANGED twin

\* line 1219
ReturnRun ==
  /\ pc = "loop"
  /\ s + 1 >= n_steps
  /\ pc' = "done"
  /\ UNCHANGED <<N, n_steps, betaK, build, mem, spins, E_series, s, randx,
                 randy, dE, u, err, raisedAt, spins0, prev, ret>>

Return == ReturnRun /\ UNCHANGED twin

Next == Setup \/ Step \/ Return

Spec == Init /\ [][Next]_vars

(* ---- the Cython kernel: metropolis_hastings2(N, n_steps, beta) ---- *)
\* boundscheck(False), wraparound(False): spins[i, j] is the word at offset
\* i * n + j of the buffer, the word after the buffer when the offset is n * n
AtC(sp, n, m, i, j) ==
  LET off == i * n + j
  IN IF off \in 0 .. n * n - 1 THEN sp[<<off \div n, off % n>>] ELSE m

\* lines 1358-1388: the branches are those of the numba calc_positional_e
calc_positional_e_cy(sp, n, m, i, j) ==
  LET rd == PositionalReads(n, i, j)
  IN AtC(sp, n, m, rd[1][1], rd[1][2]) + AtC(sp, n, m, rd[2][1], rd[2][2])
     + AtC(sp, n, m, rd[3][1], rd[3][2]) + AtC(sp, n, m, rd[4][1], rd[4][2])

\* lines 1393-1394
delta_e_cy(sp, n, m, i, j, JJ) ==
  2 * JJ * sp[<<i, j>>] * calc_positional_e_cy(sp, n, m, i, j)

\* lines 1397-1408
total_mag_e_cy(sp, n, m, JJ) ==
  -JJ * SumOver([c \in Cells(n) |-> calc_positional_e_cy(sp, n, m, c[1], c[2])],
                Cells(n))

\* called with N >= 1 and n_steps >= 1
InitMh2 ==
  /\ \E k \in 0 .. MaxN - 1 : N = MaxN - k
  /\ n_steps \in 1 .. MaxSteps
  /\ betaK \in BetaKs
  /\ build = "cython"
  /\ mem \in (IF N = 1 THEN JunkVals ELSE {0})
  /\ spins = <<>>
  /\ E_series = <<>>
  /\ s = 0
  /\ randx = 0
  /\ randy = 0
  /\ dE = 0
  /\ u = NoDraw
  /\ pc = "call2"
  /\ err = "none"
  /\ raisedAt = "none"
  /\ spins0 = <<>>
  /\ prev = <<>>
  /\ ret = NoRet
  /\ twin = NoTwin

\* lines 1418-1423
Setup2 ==
  /\ pc = "call2"
  /\ pc' = "loop2"
  /\ \E L \in Lattices(N, MaxFree) :
       /\ spins' = L
       /\ spins0' = L
       /\ prev' = L
       /\ E_series' = E_init(n_steps, total_mag_e_cy(L, N, mem, J))
  /\ UNCHANGED <<N, n_steps, betaK, build, mem, s, randx, randy, dE, u, err,
                 raisedAt, ret, twin>>

\* lines 1425-1435: int(drand48() * N) is a site index 0 .. N-1
Step2 ==
  /\ pc = "loop2"
  /\ s + 1 < n_steps
  /\ s' = s + 1
  /\ \E x \in 0 .. N - 1, y \in 0 .. N - 1 :
       LET d == delta_e_cy(spins, N, mem, x, y, J)
       IN /\ randx' = x
          /\ randy' = y
          /\ dE' = d
          /\ prev' = spins
          /\ \E uu \in DrawsFor(d) :
               /\ u' = uu
               /\ spins' = IF Accepts(d, betaK, uu)
                           THEN Flip(spins, x, y) ELSE spins
               /\ E_series' = E_update(E_series, s + 1, d,
                                       Accepts(d, betaK, uu))
  /\ UNCHANGED <<N, n_steps, betaK, build, mem, pc, err, raisedAt, spins0,
                 ret, twin>>

\* line 1436
Return2 ==
  /\ pc = "loop2"
  /\ s + 1 >= n_steps
  /\ pc' = "done2"
  /\ UNCHANGED <<N, n_steps, betaK, build, mem, spins, E_series, s, randx,
                 randy, dE, u, err, raisedAt, spins0, prev, ret, twin>>

\* either sampler
InitBoth == Init \/ InitMh2

NextBoth == Setup \/ Step \/ Return \/ Setup2 \/ Step2 \/ Return2

SpecBoth == InitBoth /\ [][NextBoth]_vars

(* ---- metropolis_hastings executed twice on the same inputs ---- *)
\* A second execution of the same build with the same N, n_steps and beta,
\* started on the same lattice and handed the same draws.  Its lattice, its
\* series and the word after its lattice buffer are its own.
InitTwin ==
  /\ InitRun
  /\ \E m \in (IF N = 1 THEN JunkVals ELSE {0}) :
       twin = [mem |-> m, spins |-> <<>>, E_series |-> <<>>, pc |-> "call"]

\* lines 1203-1206 in the second execution, on the lattice the first drew
TwinSetup ==
  twin' =
    IF N < 0 THEN [twin EXCEPT !.pc = "raised"]
    ELSE IF n_steps < 0
    THEN [twin EXCEPT !.spins = spins0', !.pc = "raised"]
    ELSE IF calc_positional_e_raises(spins0', N, build) \/ n_steps = 0
    THEN [twin EXCEPT !.spins = spins0', !.pc = "raised",
                      !.E_series = [k \in 0 .. n_steps - 1 |-> 1]]
    ELSE [twin EXCEPT !.spins = spins0', !.pc = "loop",
                      !.E_series = E_init(n_steps,
                                     total_mag_e(spins0', N, build, twin.mem, J))]

\* line 1214 in the second execution: the draw the first execution made at
\* this step when it made one, the next value of the stream otherwise
TwinDraws(d, uu) ==
  IF d < 0 THEN {NoDraw} ELSE IF uu # NoDraw THEN {uu} ELSE UDraws

\* lines 1208-1218 in the second execution, at the site the first drew
TwinStep ==
  IF N = 0 THEN twin' = [twin EXCEPT !.pc = "raised"]
  ELSE IF delta_e_raises(twin.spins, N, build, randx', randy')
  THEN twin' = [twin EXCEPT !.pc = "raised"]
  ELSE LET d == delta_e(twin.spins, N, build, twin.mem, randx', randy', J)
       IN \E uu \in TwinDraws(d, u') :
            twin' = [twin EXCEPT
                       !.spins = IF Accepts(d, betaK, uu)
                                 THEN Flip(twin.spins, randx', randy')
                                 ELSE twin.spins,
                       !.E_series = E_update(twin.E_series, s + 1, d,
                                             Accepts(d, betaK, uu))]

\* line 1219 in the second execution
TwinReturn == twin' = [twin EXCEPT !.pc = "done"]

SetupBoth == SetupRun /\ twin.pc = "call" /\ TwinSetup

StepBoth == StepRun /\ twin.pc = "loop" /\ TwinStep

ReturnBoth == ReturnRun /\ twin.pc = "loop" /\ TwinReturn

NextTwin == SetupBoth \/ StepBoth \/ ReturnBoth

SpecTwin == InitTwin /\ [][NextTwin]_vars

(* ---- the kernel functions called on their own ---- *)
InitFn ==
  /\ \E k \in 0 .. MaxSide - 1 : N = MaxSide - k
  /\ spins \in Lattices(N, MaxFreeFn)
  /\ build \in Builds
  /\ mem \in (IF N = 1 THEN JunkVals ELSE {0})
  /\ n_steps = 0
  /\ betaK = 1
  /\ E_series = <<>>
  /\ s = 0
  /\ randx = 0
  /\ randy = 0
  /\ dE = 0
  /\ u = NoDraw
  /\ pc = "fn"
  /\ err = "none"
  /\ raisedAt = "none"
  /\ spins0 = spins
  /\ prev = spins
  /\ ret = NoRet
  /\ twin = NoTwin

\* a function is called once on its arguments: it leaves them as they were,
\* so a second call would see what the first saw
FnFrame ==
  /\ ret = NoRet
  /\ UNCHANGED <<N, n_steps, betaK, build, mem, spins, E_series, s, randx,
                 randy, dE, u, pc, err, raisedAt, spins0, prev, twin>>

\* E = calc_positional_e(spins, J)
CallCalcPositionalE ==
  /\ pc = "fn"
  /\ FnFrame
  /\ ret' = IF calc_positional_e_raises(spins, N, build)
            THEN [NoRet EXCEPT !.fn = "calc_positional_e", !.raised = TRUE]
            ELSE [NoRet EXCEPT !.fn = "calc_positional_e",
                               !.E = calc_positional_e(spins, N, build, mem)]

\* delta_e(spins, i, j, J)
CallDeltaE ==
  /\ pc = "fn"
  /\ FnFrame
  /\ \E c \in Cells(N) :
       ret' = IF delta_e_raises(spins, N, build, c[1], c[2])
              THEN [NoRet EXCEPT !.fn = "delta_e", !.i = c[1], !.j = c[2],
                                 !.raised = TRUE]
              ELSE [NoRet EXCEPT !.fn = "delta_e", !.i = c[1], !.j = c[2],
                                 !.val = delta_e(spins, N, build, mem, c[1], c[2], J)]

\* total_mag_e(spins, J)
CallTotalMagE ==
  /\ pc = "fn"
  /\ FnFrame
  /\ ret' = IF calc_positional_e_raises(spins, N, build)
            THEN [NoRet EXCEPT !.fn = "total_mag_e", !.raised = TRUE]
            ELSE [NoRet EXCEPT !.fn = "total_mag_e",
                               !.val = total_mag_e(spins, N, build, mem, J)]

\* the lattice rolled by a rows and b columns: cell (i, j) moves to
\* ((i + a) mod n, (j + b) mod n)
ShiftCell(n, a, b, c) == <<(c[1] + a) % n, (c[2] + b) % n>>

ShiftLattice(sp, n, a, b) ==
  [c \in Cells(n) |-> sp[<<(c[1] - a) % n, (c[2] - b) % n>>]]

\* calc_positional_e(shifted, J)
CallCalcPositionalEShifted ==
  /\ pc = "fn"
  /\ FnFrame
  /\ \E a \in 0 .. N - 1, b \in 0 .. N - 1 :
       LET sh == ShiftLattice(spins, N, a, b)
       IN ret' = IF calc_positional_e_raises(sh, N, build)
                 THEN [NoRet EXCEPT !.fn = "calc_positional_e_shifted",
                                    !.a = a, !.b = b, !.raised = TRUE]
                 ELSE [NoRet EXCEPT !.fn = "calc_positional_e_shifted",
                                    !.a = a, !.b = b,
                                    !.E = calc_positional_e(sh, N, build, mem)]

\* delta_e(shifted, i, j, J) for every site (i, j)
CallDeltaEShifted ==
  /\ pc = "fn"
  /\ FnFrame
  /\ \E a \in 0 .. N - 1, b \in 0 .. N - 1 :
       LET sh == ShiftLattice(spins, N, a, b)
       IN ret' = IF \E c \in Cells(N) : delta_e_raises(sh, N, build, c[1], c[2])
                 THEN [NoRet EXCEPT !.fn = "delta_e_shifted",
                                    !.a = a, !.b = b, !.raised = TRUE]
                 ELSE [NoRet EXCEPT !.fn = "delta_e_shifted",
                                    !.a = a, !.b = b,
                                    !.E = [c \in Cells(N) |->
                                             delta_e(sh, N, build, mem, c[1], c[2], J)]]

\* the Cython delta_e(spins, i, j, J) called on the same lattice
CallDeltaECy ==
  /\ pc = "fn"
  /\ FnFrame
  /\ \E c \in Cells(N) :
       ret' = [NoRet EXCEPT !.fn = "delta_e_cy", !.i = c[1], !.j = c[2],
                            !.val = delta_e_cy(spins, N, mem, c[1], c[2], J)]

NextFn ==
  \/ CallCalcPositionalE
  \/ CallDeltaE
  \/ CallTotalMagE
  \/ CallCalcPositionalEShifted
  \/ CallDeltaEShifted
  \/ CallDeltaECy

SpecFn == InitFn /\ [][NextFn]_vars

(* ---- average_magnetization(spins, N) ---- *)
\* float64 arithmetic of (1 / n) * n for an integer n >= 1.  Dividing n by two
\* only moves the exponent, so n is taken odd.  With 2^(c-1) < n < 2^c the
\* double nearest 1/n is m * 2^-(52+c), m the integer nearest 2^(52+c) / n.
\* Let r = 2^(52+c) mod n.  When 2r > n the quotient was rounded up and the
\* product 1 + (n-r) * 2^-(52+c) rounds to 1.0; when 2r < n it was rounded
\* down and the product 1 - r * 2^-(52+c) rounds to 1.0 iff r <= 2^(c-2),
\* and to 1 - 2^-53 otherwise.
RECURSIVE OddPart(_)
OddPart(n) == IF n % 2 = 0 THEN OddPart(n \div 2) ELSE n

RECURSIVE BitLength(_)
BitLength(n) == IF n = 0 THEN 0 ELSE 1 + BitLength(n \div 2)

RECURSIVE PowMod(_, _)
PowMod(e, n) == IF e = 0 THEN 1 % n ELSE (2 * PowMod(e - 1, n)) % n

RecipTimesIsOne(n) ==
  LET o == OddPart(n)
      c == BitLength(o)
      r == PowMod(52 + c, o)
  IN o = 1 \/ 2 * r > o \/ r <= Pow2(c - 2)

\* line 1280: (1 / N**2) * np.sum(spins).  The value is num / den + ulp * 2^-53
\* when |num| = den; for a smaller |num| the record stands for the double
\* (1 / den) * num, within one unit in the last place of num / den.
average_magnetization(sp, n) ==
  LET sum == SumOver(sp, DOMAIN sp)
      den == n * n
  IN [num |-> sum, den |-> den,
      ulp |-> IF sum = den /\ ~RecipTimesIsOne(den) THEN -1
              ELSE IF sum = -den /\ ~RecipTimesIsOne(den) THEN 1
              ELSE 0]

\* the lattices that are all +1 or all -1 but for at most one cell
NearUniform(n) ==
  {[c \in Cells(n) |-> v] : v \in {-1, 1}}
    \cup {[c \in Cells(n) |-> IF c = f THEN -v ELSE v] :
            v \in {-1, 1}, f \in Cells(n)}

InitMag ==
  /\ \E k \in 0 .. MaxMagSide - 1 : N = MaxMagSide - k
  /\ spins \in NearUniform(N)
  /\ build \in Builds
  /\ mem = 0
  /\ n_steps = 0
  /\ betaK = 1
  /\ E_series = <<>>
  /\ s = 0
  /\ randx = 0
  /\ randy = 0
  /\ dE = 0
  /\ u = NoDraw
  /\ pc = "mag"
  /\ err = "none"
  /\ raisedAt = "none"
  /\ spins0 = spins
  /\ prev = spins
  /\ ret = NoRet
  /\ twin = NoTwin

\* average_magnetization(spins, N)
CallAverageMagnetization ==
  /\ pc = "mag"
  /\ FnFrame
  /\ ret' = [NoRet EXCEPT !.fn = "average_magnetization",
                          !.mag = average_magnetization(spins, N)]

NextMag == CallAverageMagnetization

SpecMag == InitMag /\ [][NextMag]_vars

(* ---- the beta sweep of Task 6 ---- *)
\* one iteration of the loop of lines 1282-1285; the side 20, the 500000 steps
\* and the betas in [0.1, 0.6] are the positive N, n_steps and beta of the run
InitSweep ==
  /\ Init
  /\ N >= 1
  /\ n_steps >= 1
  /\ betaK > 0
  /\ betaK # BetaInf

\* C[0]: the first row of the returned lattice
Row0(sp, n) == [j \in 0 .. n - 1 |-> sp[<<0, j>>]]

\* line 1285: m_ser[b] = average_magnetization(C[0], 20)
RecordMagnetization ==
  /\ pc = "done"
  /\ pc' = "swept"
  /\ ret' = [NoRet EXCEPT !.fn = "m_ser",
                          !.mag = average_magnetization(Row0(spins, N), N)]
  /\ UNCHANGED <<N, n_steps, betaK, build, mem, spins, E_series, s, randx,
                 randy, dE, u, err, raisedAt, spins0, prev, twin>>

NextSweep == Setup \/ Step \/ Return \/ RecordMagnetization

SpecSweep == InitSweep /\ [][NextSweep]_vars

(***************************************************************************)
(* Reference definitions the properties are stated with.                   *)
(***************************************************************************)
\* the four periodic nearest neighbours of (i, j): index n is 0, index -1 is n-1
PeriodicSum(sp, n, i, j) ==
  sp[<<(i - 1) % n, j>>] + sp[<<(i + 1) % n, j>>]
  + sp[<<i, (j - 1) % n>>] + sp[<<i, (j + 1) % n>>]

PeriodicSums(sp, n) == [c \in Cells(n) |-> PeriodicSum(sp, n, c[1], c[2])]

\* one term per bond: every cell with its lower and its right neighbour
BondProducts(sp, n) ==
  [c \in Cells(n) |-> sp[c] * sp[<<(c[1] + 1) % n, c[2]>>]
                      + sp[c] * sp[<<c[1], (c[2] + 1) % n>>]]

BondEnergy(sp, n, JJ) == -JJ * SumOver(BondProducts(sp, n), Cells(n))

Running == pc \in {"loop", "done"}

(***************************************************************************)
(* Properties.                                                             *)
(***************************************************************************)

\* C1: in every state of a run, before and after every update step, every
\* cell of the lattice holds -1 or +1.
C1_CellsAreSpins ==
  /\ \A c \in DOMAIN spins : spins[c] \in {-1, 1}
  /\ Running => DOMAIN spins = Cells(N)

C1_Witness == pc = "done" /\ s >= 2 /\ spins # spins0 /\ spins # prev

\* C2: every update step writes E_series[s] = E_series[s-1] + dE when it flips
\* the chosen cell, dE being delta_e of that cell on the lattice before the
\* flip, and E_series[s] = E_series[s-1] when it does not flip; the entries
\* written before stay as they are.
C2_SeriesRecurrence ==
  [][(pc = "loop" /\ pc' = "loop" /\ s' = s + 1) =>
       /\ E_series'[s'] = E_series[s]
            + (IF spins' # spins
               THEN delta_e(spins, N, build, mem, randx', randy', J) ELSE 0)
       /\ \A k \in 0 .. s : E_series'[k] = E_series[k]]_vars

C2_Witness ==
  /\ pc = "done"
  /\ s >= 2
  /\ spins # prev
  /\ dE > 0
  /\ E_series[s] = E_series[s - 1] + dE
  /\ E_series[s - 1] = E_series[s - 2]

\* C3: the latest entry of the series is the total energy (total_mag_e with
\* J = 1) of the lattice as it stands after that step.
C3_SeriesIsTotalEnergy ==
  Running => E_series[s] = total_mag_e(spins, N, build, mem, J)

\* C4: calc_positional_e gives every cell, corner, edge or interior, the sum
\* of its four periodic nearest neighbours.
C4_NeighbourSum ==
  (ret.fn = "calc_positional_e" /\ ~ret.raised) =>
     \A c \in Cells(N) : ret.E[c] = PeriodicSum(spins, N, c[1], c[2])

\* C5: delta_e(spins, i, j, J) returns 2 * J * spins[i][j] times the sum of the
\* four periodic nearest neighbours of (i, j).
C5_DeltaE ==
  ret.fn = "delta_e" =>
     /\ ~ret.raised
     /\ ret.val = 2 * J * spins[<<ret.i, ret.j>>]
                    * PeriodicSum(spins, N, ret.i, ret.j)

\* C6: total_mag_e(spins, J) returns -J times the sum over all cells of the
\* cell's periodic four-neighbour sum.
C6_TotalEnergy ==
  (ret.fn = "total_mag_e" /\ ~ret.raised) =>
     ret.val = -J * SumOver(PeriodicSums(spins, N), Cells(N))

\* C7: E_series[0] is the total energy of the initial lattice; it is written
\* before the first update step and no update step overwrites it.
C7_FirstEntry ==
  Running => E_series[0] = total_mag_e(spins0, N, build, mem, J)

C7_Witness == pc = "done" /\ s >= 2 /\ spins # spins0 /\ E_series[s] # E_series[0]

\* C8: the total energy is exactly double the energy summed once per bond,
\* -J times the sum over the nearest-neighbour bonds of the product of the
\* two spins.
C8_DoubleBondEnergy ==
  (ret.fn = "total_mag_e" /\ ~ret.raised) =>
     ret.val = 2 * BondEnergy(spins, N, J)

\* C9: with N <= 0 or n_steps <= 0 the call fails with an invalid-argument
\* error before the lattice is initialised or a random draw is made, and
\* never returns a result.
C9_InvalidArgument ==
  ((N <= 0 \/ n_steps <= 0) /\ pc # "call") =>
     /\ pc = "raised"
     /\ err = "ValueError"
     /\ raisedAt = "np.random.choice"

\* C10: with N > 0 and n_steps >= 1 the call raises no indexing error and
\* returns an N x N lattice of -1 and +1.
C10_Completes ==
  (N >= 1 /\ n_steps >= 1) =>
     /\ ~(pc = "raised" /\ err = "IndexError")
     /\ pc = "done" => /\ DOMAIN spins = Cells(N)
                       /\ \A c \in Cells(N) : spins[c] \in {-1, 1}

\* C11: with J = 1 every value delta_e returns lies in [-8, 8].
C11_DeltaERange ==
  (ret.fn = "delta_e" /\ ~ret.raised) => (ret.val >= -8 /\ ret.val <= 8)

C14_AllUpTwoByTwo ==
  (N = 2 /\ \A c \in Cells(N) : spins[c] = 1) =>
     /\ ret.fn = "calc_positional_e" =>
          /\ ~ret.raised
          /\ ret.E[<<0, 0>>] = 4
          /\ PositionalReads(N, 0, 0) = << <<1, 0>>, <<1, 0>>, <<0, 1>>, <<0, 1>> >>
     /\ (ret.fn = "delta_e" /\ ret.i = 0 /\ ret.j = 0) =>
          /\ ~ret.raised
          /\ ret.val = 8
          /\ DeltaReads(N, 0, 0) = << <<1, 0>>, <<1, 0>>, <<0, 1>>, <<0, 1>> >>

C14_Witness ==
  /\ N = 2
  /\ \A c \in Cells(N) : spins[c] = 1
  /\ ret.fn = "delta_e" /\ ret.i = 0 /\ ret.j = 0 /\ ret.val = 8

\* C13: shifting the lattice cyclically by a rows and b columns moves the
\* neighbour sum of (i, j) to ((i+a) mod N, (j+b) mod N) unchanged, and the
\* same holds for delta_e.
C13_ShiftInvariant ==
  /\ (ret.fn = "calc_positional_e_shifted" /\ ~ret.raised) =>
        \A c \in Cells(N) :
           ret.E[ShiftCell(N, ret.a, ret.b, c)]
             = calc_positional_e(spins, N, build, mem)[c]
  /\ (ret.fn = "delta_e_shifted" /\ ~ret.raised) =>
        \A c \in Cells(N) :
           ret.E[ShiftCell(N, ret.a, ret.b, c)]
             = delta_e(spins, N, build, mem, c[1], c[2], J)

\* C15: two executions of metropolis_hastings with the same N, n_steps, beta,
\* initial lattice and draws return the same lattice and the same series.
C15_Deterministic ==
  (pc = "done" /\ twin.pc = "done") =>
     (twin.spins = spins /\ twin.E_series = E_series)

\* C16: for N >= 1 and n_steps >= 1 the run never stops on an error, returns
\* after exactly n_steps - 1 update steps with a series of length n_steps,
\* writes index 0 before the loop, and update step k writes index k and no
\* other index, so every index is written once, in increasing order.
C16_StepsAndWrites ==
  [][(N >= 1 /\ n_steps >= 1) =>
       /\ pc' # "raised"
       /\ (pc = "call" /\ pc' = "loop") =>
             /\ s' = 0
             /\ DOMAIN E_series' = 0 .. n_steps - 1
             /\ E_series'[0] = total_mag_e(spins', N, build, mem, J)
       /\ (pc = "loop" /\ pc' = "loop") =>
             /\ s' = s + 1
             /\ s' <= n_steps - 1
             /\ DOMAIN E_series' = DOMAIN E_series
             /\ \A k \in DOMAIN E_series : k # s' => E_series'[k] = E_series[k]
       /\ (pc = "loop" /\ pc' = "done") =>
             /\ s' = n_steps - 1
             /\ E_series' = E_series
             /\ DOMAIN E_series' = 0 .. n_steps - 1]_vars

\* C17: average_magnetization returns exactly 1.0 for an all +1 lattice and
\* exactly -1.0 for an all -1 lattice, whatever the side N >= 1.
C17_UniformIsExact ==
  ret.fn = "average_magnetization" =>
     /\ (\A c \in Cells(N) : spins[c] = 1) =>
           (ret.mag.num = ret.mag.den /\ ret.mag.ulp = 0)
     /\ (\A c \in Cells(N) : spins[c] = -1) =>
           (ret.mag.num = -ret.mag.den /\ ret.mag.ulp = 0)

\* C18: the value the sweep stores in m_ser[b] is the average magnetization of
\* the whole final lattice: the sum of all N*N cells over N^2.
C18_WholeLattice ==
  ret.fn = "m_ser" =>
     /\ ret.mag.num = SumOver(spins, Cells(N))
     /\ ret.mag.den = N * N

\* C20 as stated: whenever the comparison against exp(-beta*dE) is evaluated,
\* dE >= 0 and the threshold exp(-beta*dE) lies in (0, 1].
C20_ThresholdInUnitInterval ==
  u # NoDraw =>
     /\ dE >= 0
     /\ ~np_exp(dE, betaK).zero
     /\ np_exp(dE, betaK).e <= 0

\* C20 as amended: whenever the comparison is evaluated dE >= 0; for
\* a finite beta >= 0 the threshold lies in [0, 1], being 1 when dE = 0 and
\* 0.0 only when beta*dE is large enough for the exponential to underflow; for
\* a finite beta < 0 and dE > 0 the threshold is greater than 1.
C20_ThresholdByBeta ==
  u # NoDraw =>
     /\ dE >= 0
     /\ betaK # BetaInf =>
          /\ ~np_exp(dE, betaK).nan
          /\ betaK >= 0 => np_exp(dE, betaK).e <= 0
          /\ dE = 0 => (np_exp(dE, betaK).e = 0 /\ ~np_exp(dE, betaK).zero)
          /\ np_exp(dE, betaK).zero => betaK * dE > 1074
          /\ (betaK < 0 /\ dE > 0) =>
                (np_exp(dE, betaK).e > 0 /\ ~np_exp(dE, betaK).zero)

C20_Witness ==
  /\ pc = "loop"
  /\ s >= 1
  /\ u # NoDraw
  /\ dE = 8
  /\ betaK = 200
  /\ np_exp(dE, betaK).zero
  /\ spins = prev

\* C19: at every update step of metropolis_hastings and of
\* metropolis_hastings2 the spin at the drawn site is flipped if and only if
\* dE < 0 or the draw u is below exp(-beta*dE); a step with dE < 0 flips
\* without a draw being looked at.
C19_AcceptanceRule ==
  [][((pc = "loop" /\ pc' = "loop") \/ (pc = "loop2" /\ pc' = "loop2")) =>
       /\ (spins' # spins) <=> (dE' < 0 \/ Boltzmann(dE', betaK, u'))
       /\ dE' < 0 => (spins' # spins /\ u' = NoDraw)
       /\ spins' # spins =>
             spins' = [spins EXCEPT ![<<randx', randy'>>] = -@]
       /\ dE' >= 0 => u' \in UDraws]_vars

C19_Witness ==
  /\ pc = "loop2"
  /\ s >= 1
  /\ dE > 0
  /\ u # NoDraw
  /\ Boltzmann(dE, betaK, u)
  /\ spins # prev

\* C21: an update step changes at most one cell: when the accept branch is
\* taken the cell (randx, randy) is negated and no other cell changes, when it
\* is not the lattice is unchanged; the lattice changes exactly when
\* E_series[s] was written by the accept branch.
C21_OneCellPerStep ==
  [][(pc = "loop" /\ pc' = "loop") =>
       LET acc == Accepts(dE', betaK, u')
       IN /\ acc => /\ spins'[<<randx', randy'>>] = -spins[<<randx', randy'>>]
                    /\ \A c \in Cells(N) :
                          c # <<randx', randy'>> => spins'[c] = spins[c]
                    /\ E_series'[s'] = E_series[s] + dE'
          /\ ~acc => /\ spins' = spins
                     /\ E_series'[s'] = E_series[s]
          /\ (spins' # spins) <=> acc
          /\ Cardinality({c \in Cells(N) : spins'[c] # spins[c]}) <= 1]_vars

C21_Witness ==
  /\ pc = "loop"
  /\ s >= 1
  /\ N = 2
  /\ Cardinality({c \in Cells(N) : spins[c] # prev[c]}) = 1
  /\ spins[<<randx, randy>>] = -prev[<<randx, randy>>]
  /\ E_series[s] = E_series[s - 1] + dE

\* C22: at every update step of metropolis_hastings and metropolis_hastings2
\* the drawn site satisfies 0 <= randx < N and 0 <= randy < N, and the site and
\* the four neighbour indices delta_e reads for it are all inside the N x N
\* lattice.
C22_StepStaysInLattice ==
  (N >= 1 /\ s >= 1) =>
     LET rd == IF build = "cython" THEN PositionalReads(N, randx, randy)
               ELSE DeltaReads(N, randx, randy)
     IN /\ randx \in 0 .. N - 1
        /\ randy \in 0 .. N - 1
        /\ \A k \in 1 .. 4 : /\ rd[k][1] \in 0 .. N - 1
                             /\ rd[k][2] \in 0 .. N - 1

\* C23: for every +-1 lattice and every site the Cython delta_e returns the
\* value the Python delta_e returns.
C23_CythonEqualsPython ==
  (ret.fn = "delta_e_cy" /\ ~delta_e_raises(spins, N, build, ret.i, ret.j)) =>
     ret.val = delta_e(spins, N, build, mem, ret.i, ret.j, J)

\* the single-counted Ising energy: -(J/2) times the sum over all cells of the
\* cell times its periodic four-neighbour sum (the sum is even)
IsingH(sp, n, JJ) ==
  -((JJ * SumOver([c \in Cells(n) |-> sp[c] * PeriodicSum(sp, n, c[1], c[2])],
                  Cells(n))) \div 2)

\* C24: for N >= 2, at every step s, E_series[s] - E_series[0] is the change
\* of the single-counted Ising energy between the initial lattice and the
\* lattice after step s.
C24_SeriesTracksIsingEnergy ==
  (N >= 2 /\ Running) =>
     E_series[s] - E_series[0] = IsingH(spins, N, J) - IsingH(spins0, N, J)

C24_Witness ==
  /\ N >= 2
  /\ Running
  /\ s = 2
  /\ spins # spins0
  /\ E_series[2] # E_series[1]
  /\ E_series[1] # E_series[0]
  /\ E_series[2] - E_series[0] = IsingH(spins, N, J) - IsingH(spins0, N, J)

\* C25: for N >= 2, once a site has been flipped, delta_e at that site is the
\* negative of what it was before the flip; so when the next step proposes the
\* same site and flips it too, the lattice and the running energy are back to
\* what they were before the first of the two flips.
C25_FlipReversesCost ==
  [][(/\ N >= 2
      /\ pc = "loop" /\ pc' = "loop"
      /\ s >= 1
      /\ spins # prev
      /\ randx' = randx /\ randy' = randy) =>
        /\ dE' = -dE
        /\ dE' = -delta_e(prev, N, build, mem, randx, randy, J)
        /\ spins' # spins =>
              /\ spins' = prev
              /\ E_series'[s'] = E_series[s - 1]]_vars

C25_Witness ==
  /\ N >= 2
  /\ pc = "loop"
  /\ s = 2
  /\ spins # prev
  /\ spins = spins0
  /\ dE # 0
  /\ E_series[2] = E_series[0]
  /\ E_series[1] = E_series[0] - dE

\* C26: a proposal with dE = 0 is always accepted, the chosen cell being
\* flipped and E_series[s] = E_series[s-1]; and from an all-aligned lattice of
\* side N >= 2 every proposal has dE = +8J, so none is accepted through the
\* dE < 0 branch.
C26_ZeroCostAccepted ==
  [][(pc = "loop" /\ pc' = "loop") =>
       /\ dE' = 0 =>
             /\ spins' = [spins EXCEPT ![<<randx', randy'>>] = -@]
             /\ E_series'[s'] = E_series[s]
       /\ (N >= 2 /\ \E v \in {-1, 1} : \A c \in Cells(N) : spins[c] = v) =>
             /\ dE' = 8 * J
             /\ u' # NoDraw]_vars

====
